---------------------------- MODULE Spec2Model ----------------------------
(***************************************************************************)
(* fsevent_watch (src/fsevent_watch/main.c): a command-line bridge that    *)
(* turns FSEvents notifications into text on standard output.              *)
(*                                                                         *)
(* The process is modelled as one sequential program (main) whose position *)
(* is pc, together with its environment: the OS version Gestalt reports,   *)
(* the command line as cli_parser returns it, the file system realpath and *)
(* getcwd look at, the FSEvents stream (a black box that coalesces changes *)
(* into batches and hands them to the registered callback) and signals.    *)
(* C strings are sequences of one-character strings.                       *)
(***************************************************************************)
EXTENDS Integers, Sequences, FiniteSets, TLC

(***************************************************************************)
(* Bounds of the model.                                                    *)
(***************************************************************************)
\* size of the fullPath buffer (PATH_MAX of the platform, scaled down)
PATH_MAX == 8
\* at most this many path arguments on the command line
MaxInputs == 2
\* at most this many events in one delivered batch
MaxBatchLen == 2
\* at most this many batches are produced by the stream in one run
MaxBatches == 2

(***************************************************************************)
(* Program constants.                                                      *)
(***************************************************************************)
EXIT_FAILURE == 1
EXIT_SUCCESS == 0
\* exit status of main when setpgid fails
PgidFailure == 1
\* status of a process still running
NoExit == -1
\* a process ended by a signal has no exit code of its own; the status its
\* parent sees is non-zero (shell convention 128 + signal number)
KilledBySignal == 128 + 15
KilledByFault == 128 + 11
\* kFSEventStreamEventIdSinceNow, (UInt64) -1: kept as -1
kFSEventStreamEventIdSinceNow == -1
\* the default latency, 0.3 s, in milliseconds
DefaultLatency == 300

(***************************************************************************)
(* State.                                                                  *)
(***************************************************************************)
VARIABLES
  env,             \* the environment of this run
  pc,              \* position in main / parse_cli_settings
  osMajorVersion,  \* locals of parse_cli_settings
  osMinorVersion,
  config,          \* the static config structure
  stream,          \* FSEventStreamRef: "unset", "NULL" or "handle"
  created,         \* the arguments FSEventStreamCreate was called with, in order
  ops,             \* the FSEventStream calls made and callbacks run, in order
  pending,         \* batches coalesced inside the stream, not yet delivered
  produced,        \* number of batches the stream has coalesced
  delivered,       \* batches handed to the callback, in order
  out,             \* bytes written to standard output
  stdoutBuf,       \* bytes printed to stdout and still in its stdio buffer
  flushed,         \* history: the length of out after each fflush(stdout)
  exitStatus,      \* NoExit while running
  exitReason       \* which statement ended the process

Min(a, b) == IF a < b THEN a ELSE b

\* all sequences over S of length at most n
SeqsUpTo(S, n) == UNION {[1..k -> S] : k \in 0..n}

\* n copies of the character c
Repeat(c, n) == [i \in 1..n |-> c]

(***************************************************************************)
(* The file system the path resolver looks at.  The process runs in Cwd,   *)
(* which exists; "a" exists in it, "l" is a symbolic link to "a", nothing  *)
(* else exists.                                                            *)
(***************************************************************************)
Cwd == <<"/", "w">>
Dot == <<".">>
RelExisting == <<"a">>
RelLink == <<"l">>
RelMissing == <<"n">>
AbsMissing == <<"/", "n">>
\* the longest absolute name that fits the fullPath buffer
AbsLongest == <<"/">> \o Repeat("n", PATH_MAX - 2)
\* names too long for the fullPath buffer
RelLong == Repeat("n", PATH_MAX)
AbsLong == <<"/">> \o Repeat("n", PATH_MAX)

InputPaths ==
  {RelExisting, RelLink, RelMissing, AbsMissing, AbsLongest, RelLong, AbsLong}

\* realpath(3): the canonical absolute name of an existing entry, or failure
\* (NULL) when the name is too long (ENAMETOOLONG) or nothing exists there
\* (ENOENT)
realpath(path) ==
  IF path = Dot THEN [ok |-> TRUE, path |-> Cwd, errno |-> "none"]
  ELSE IF path \in {RelExisting, RelLink}
    THEN [ok |-> TRUE, path |-> Cwd \o <<"/">> \o RelExisting, errno |-> "none"]
  ELSE IF Len(path) >= PATH_MAX
    THEN [ok |-> FALSE, path |-> <<>>, errno |-> "ENAMETOOLONG"]
  ELSE [ok |-> FALSE, path |-> <<>>, errno |-> "ENOENT"]

\* getcwd(3) into a buffer of PATH_MAX bytes (Cwd fits)
getcwd == Cwd

\* strlcpy that leaves room for one character too few
strlcpy_OffByOne(src, size) ==
  IF size <= 1 THEN <<>> ELSE SubSeq(src, 1, Min(Len(src), size - 2))

\* strlcpy(dst, src, size): what dst holds afterwards; at most size - 1
\* characters are copied, the rest of src is dropped
strlcpy(src, size) ==
  IF size = 0 THEN <<>> ELSE SubSeq(src, 1, Min(Len(src), size - 1))

\* the string append_path leaves in fullPath
ResolvePath(path) ==
  LET r == realpath(path) IN
  IF r.ok THEN r.path
  ELSE IF Len(path) = 0 \/ path[1] # "/"
    THEN LET cwd == getcwd
             len == Len(cwd)
         IN  cwd \o <<"/">> \o strlcpy(path, PATH_MAX - (len + 1))
    ELSE strlcpy(path, PATH_MAX)

\* append_path: resolve the path and append it to config.paths
append_path(paths, path) == Append(paths, ResolvePath(path))

(***************************************************************************)
(* Events and their rendering.                                             *)
(***************************************************************************)
TmpA == <<"/", "t", "m", "p", "/", "a">>
TmpB == <<"/", "t", "m", "p", "/", "b">>

Event(p, f, i) == [path |-> p, flags |-> f, id |-> i]
EventA == Event(TmpA, 0, 1)
EventB == Event(TmpB, 0, 2)
\* an event with flag bits set (kFSEventStreamEventFlagItemCreated) and a
\* two-digit id
EventC == Event(TmpA, 256, 30)

\* the batches the stream may deliver: zero or more events each
Batches == SeqsUpTo({EventA, EventB}, MaxBatchLen) \cup {<<EventC>>}

\* one decimal digit
Digit(d) == SubSeq(<<"0", "1", "2", "3", "4", "5", "6", "7", "8", "9">>, d + 1, d + 1)

\* printf("%lu") / printf("%llu") of an unsigned value
RECURSIVE Decimal(_)
Decimal(n) == IF n < 10 THEN Digit(n) ELSE Decimal(n \div 10) \o Digit(n % 10)

\* the loop of classic_output_format from index i (0-based, as in the code)
RECURSIVE classic_loop(_, _, _)
classic_loop(numEvents, paths, i) ==
  IF i < numEvents
    THEN paths[i + 1] \o <<":">> \o classic_loop(numEvents, paths, i + 1)
    ELSE <<>>

\* classic_output_format with the colons between the paths only
classic_output_format_Joined(numEvents, paths) ==
  (IF numEvents = 0 THEN <<>>
   ELSE SubSeq(classic_loop(numEvents, paths, 0), 1,
               Len(classic_loop(numEvents, paths, 0)) - 1))
    \o <<"\n">>

\* classic_output_format: what it prints to stdout
classic_output_format(numEvents, paths) ==
  classic_loop(numEvents, paths, 0) \o <<"\n">>

\* the loop of niw_output_format from index i
RECURSIVE niw_loop(_, _, _, _, _)
niw_loop(numEvents, paths, eventFlags, eventIds, i) ==
  IF i < numEvents
    THEN Decimal(eventFlags[i + 1]) \o <<":">> \o Decimal(eventIds[i + 1])
           \o <<":">> \o paths[i + 1] \o <<"\n">>
           \o niw_loop(numEvents, paths, eventFlags, eventIds, i + 1)
    ELSE <<>>

\* niw_output_format with the id printed before the flags
niw_output_format_IdFirst(numEvents, paths, eventFlags, eventIds) ==
  niw_loop(numEvents, paths, eventIds, eventFlags, 0) \o <<"\n">>

\* niw_output_format: what it prints to stdout
niw_output_format(numEvents, paths, eventFlags, eventIds) ==
  niw_loop(numEvents, paths, eventFlags, eventIds, 0) \o <<"\n">>

\* callback that remembers whether it ran before and separates the batches
\* with an empty line
callback_Separated(format, batch) ==
  (IF delivered = <<>> THEN <<>> ELSE <<"\n">>)
    \o (IF format = "Classic"
          THEN classic_output_format(Len(batch), [i \in 1..Len(batch) |-> batch[i].path])
          ELSE niw_output_format(Len(batch),
                                 [i \in 1..Len(batch) |-> batch[i].path],
                                 [i \in 1..Len(batch) |-> batch[i].flags],
                                 [i \in 1..Len(batch) |-> batch[i].id]))

\* callback: the text one invocation prints to stdout for a batch, which
\* arrives as three parallel arrays
callback(format, batch) ==
  LET numEvents == Len(batch)
      paths == [i \in 1..numEvents |-> batch[i].path]
      eventFlags == [i \in 1..numEvents |-> batch[i].flags]
      eventIds == [i \in 1..numEvents |-> batch[i].id]
  IN  IF format = "Classic" THEN classic_output_format(numEvents, paths)
      ELSE IF format = "NIW"
        THEN niw_output_format(numEvents, paths, eventFlags, eventIds)
      ELSE <<>>

\* standard output: the bytes written so far (out), the bytes in the stdio
\* buffer (buf), and the length of out after each fflush (flushed)
Stdout(o, b, f) == [out |-> o, buf |-> b, flushed |-> f]

\* fprintf(stdout, ...): the text goes to the stdio buffer
fprintf(io, text) == Stdout(io.out, io.buf \o text, io.flushed)

\* fflush left out: the text stays in the buffer
fflush_Never(io) == io

\* fflush(stdout): the buffer is written out and left empty
fflush(io) == Stdout(io.out \o io.buf, <<>>, Append(io.flushed, Len(io.out \o io.buf)))

\* one invocation of callback: print the batch in the configured format,
\* then fflush
run_callback(io, format, batch) == fflush(fprintf(io, callback(format, batch)))

\* flush_sync with the callback entered for the second batch while the first
\* is still being printed
flush_sync_Overlapping(io, format, batches) ==
  IF Len(batches) < 2 THEN
    IF batches = <<>> THEN io ELSE run_callback(io, format, Head(batches))
  ELSE LET first == callback(format, batches[1])
           second == callback(format, batches[2])
           mixed == SubSeq(first, 1, 1) \o second \o SubSeq(first, 2, Len(first))
           rest == [k \in 1..(Len(batches) - 2) |-> <<>>]
       IN  Stdout(io.out \o mixed, <<>>,
                  io.flushed \o <<Len(io.out) + Len(second) + 1,
                                  Len(io.out) + Len(mixed)>>
                    \o [k \in 1..(Len(batches) - 2) |-> Len(io.out) + Len(mixed)])

\* FSEventStreamFlushSync: callback invoked on each pending batch, oldest first
RECURSIVE flush_sync(_, _, _)
flush_sync(io, format, batches) ==
  IF batches = <<>> THEN io
  ELSE flush_sync(run_callback(io, format, Head(batches)), format, Tail(batches))

(***************************************************************************)
(* The environment of one run: what Gestalt answers, what cli_parser       *)
(* returns for the command line, and the batches the stream may coalesce.  *)
(***************************************************************************)
FlagNames == {"NoDefer", "WatchRoot", "IgnoreSelf", "FileEvents"}

\* struct cli_info after cli_parser, for the requested flags F
Args(since, latency, format, F, inputs) ==
  [since_when_arg |-> since, latency_arg |-> latency, format_arg |-> format,
   no_defer_flag |-> "NoDefer" \in F, watch_root_flag |-> "WatchRoot" \in F,
   ignore_self_flag |-> "IgnoreSelf" \in F, file_events_flag |-> "FileEvents" \in F,
   inputs |-> inputs, inputs_num |-> Len(inputs)]

DefaultArgs(F, inputs) ==
  Args(kFSEventStreamEventIdSinceNow, DefaultLatency, "Classic", F, inputs)

\* majorOk / minorOk: whether the Gestalt call returned noErr
\* activity: the batches the stream may coalesce in this run, at most budget
\* of them
Env(majorOk, major, minorOk, minor, cliOk, args, activity, budget) ==
  [majorOk |-> majorOk, major |-> major, minorOk |-> minorOk, minor |-> minor,
   cliOk |-> cliOk, args |-> args, activity |-> activity, budget |-> budget]

Majors == {9, 10, 11}
Minors == {0, 4, 5, 6, 7}

\* every OS version and detection failure against every set of requested flags
GateEnvs ==
  {Env(majorOk, major, minorOk, minor, TRUE, DefaultArgs(F, <<>>), {<<EventA, EventB>>}, MaxBatches) :
     majorOk \in BOOLEAN, major \in Majors, minorOk \in BOOLEAN, minor \in Minors,
     F \in SUBSET FlagNames}

\* every list of path arguments
PathEnvs ==
  {Env(TRUE, 10, TRUE, 7, TRUE, DefaultArgs({}, inputs), {<<EventA, EventB>>}, MaxBatches) :
     inputs \in SeqsUpTo(InputPaths, MaxInputs)}

\* every starting point, latency and output format
ConfigEnvs ==
  {Env(TRUE, 10, TRUE, 7, TRUE, Args(since, latency, format, {}, <<>>),
       {<<EventA, EventB>>}, MaxBatches) :
     since \in {kFSEventStreamEventIdSinceNow, 5}, latency \in {DefaultLatency, 0},
     format \in {"Classic", "NIW"}}

\* every batch, in both output formats
RunEnvs ==
  {Env(TRUE, 10, TRUE, 7, TRUE,
       Args(kFSEventStreamEventIdSinceNow, DefaultLatency, format, {}, <<>>),
       Batches, MaxBatches) :
     format \in {"Classic", "NIW"}}

\* a longer run over two batches, in both formats: the same batch again
\* after, and around, another one
RepeatEnvs ==
  {Env(TRUE, 10, TRUE, 7, TRUE,
       Args(kFSEventStreamEventIdSinceNow, DefaultLatency, format, {}, <<>>),
       {<<EventA, EventB>>, <<EventC>>}, MaxBatches + 1) :
     format \in {"Classic", "NIW"}}

\* a command line cli_parser rejects
BadCliEnvs ==
  {Env(TRUE, 10, TRUE, 7, FALSE, DefaultArgs({}, <<>>), {<<EventA, EventB>>}, MaxBatches)}

Envs ==
  GateEnvs \cup PathEnvs \cup ConfigEnvs \cup RunEnvs \cup RepeatEnvs \cup BadCliEnvs

vars == <<env, pc, osMajorVersion, osMinorVersion, config, stream, created, ops,
          pending, produced, delivered, out, stdoutBuf, flushed, exitStatus,
          exitReason>>

Init ==
  /\ env \in Envs
  /\ pc = "setpgid"
  /\ osMajorVersion = 0
  /\ osMinorVersion = 0
  /\ config = [sinceWhen |-> kFSEventStreamEventIdSinceNow,
               latency |-> DefaultLatency,
               flags |-> {},
               paths |-> <<>>,
               format |-> "Classic"]
  /\ stream = "unset"
  /\ created = <<>>
  /\ ops = <<>>
  /\ pending = <<>>
  /\ produced = 0
  /\ delivered = <<>>
  /\ out = <<>>
  /\ stdoutBuf = <<>>
  /\ flushed = <<>>
  /\ exitStatus = NoExit
  /\ exitReason = "none"

\* exit(status) / return status from main / death by a signal
Exit(status, reason) ==
  /\ pc' = "exited"
  /\ exitStatus' = status
  /\ exitReason' = reason

Goto(label) ==
  /\ pc' = label
  /\ UNCHANGED <<exitStatus, exitReason>>

(***************************************************************************)
(* Startup: main up to the creation of the stream.                         *)
(***************************************************************************)
\* main: setpgid(0, 0), which the system may refuse
SetPgid ==
  /\ pc = "setpgid"
  /\ \E ok \in BOOLEAN :
       IF ok THEN Goto("gestalt") ELSE Exit(PgidFailure, "setpgid")
  /\ UNCHANGED <<env, osMajorVersion, osMinorVersion, config, stream, created,
                 ops, pending, produced, delivered, out,
                 stdoutBuf, flushed>>

\* DetectVersion without the fallback to 0: a failed call leaves the version
\* the build assumes
DetectVersion_Guesses ==
  /\ pc = "gestalt"
  /\ osMajorVersion' = IF env.majorOk THEN env.major ELSE 10
  /\ osMinorVersion' = IF env.minorOk THEN env.minor ELSE 7
  /\ Goto("minimum")
  /\ UNCHANGED <<env, config, stream, created, ops, pending, produced,
                 delivered, out, stdoutBuf, flushed>>

\* parse_cli_settings: runtime os version detection; a failed Gestalt call
\* leaves 0 in the component
DetectVersion ==
  /\ pc = "gestalt"
  /\ osMajorVersion' = IF env.majorOk THEN env.major ELSE 0
  /\ osMinorVersion' = IF env.minorOk THEN env.minor ELSE 0
  /\ Goto("minimum")
  /\ UNCHANGED <<env, config, stream, created, ops, pending, produced,
                 delivered, out, stdoutBuf, flushed>>

\* the test guarding "The FSEvents API is unavailable on this version"
ApiUnavailable(major, minor) == (major = 10) /\ (minor < 5)

\* parse_cli_settings: the global minimum-OS check
CheckMinimumVersion ==
  /\ pc = "minimum"
  /\ IF ApiUnavailable(osMajorVersion, osMinorVersion)
       THEN Exit(EXIT_FAILURE, "minimum")
       ELSE Goto("cli")
  /\ UNCHANGED <<env, osMajorVersion, osMinorVersion, config, stream, created,
                 ops, pending, produced, delivered, out,
                 stdoutBuf, flushed>>

\* parse_cli_settings: cli_parser, then the plain fields of config
ParseCli ==
  /\ pc = "cli"
  /\ IF ~env.cliOk
       THEN Exit(EXIT_FAILURE, "cli") /\ UNCHANGED config
       ELSE /\ config' = [config EXCEPT !.paths = <<>>,
                                        !.sinceWhen = env.args.since_when_arg,
                                        !.latency = env.args.latency_arg,
                                        !.format = env.args.format_arg]
            /\ Goto("flags")
  /\ UNCHANGED <<env, osMajorVersion, osMinorVersion, stream, created, ops,
                 pending, produced, delivered, out,
                 stdoutBuf, flushed>>

\* UnconditionalFlags without the watch_root test
UnconditionalFlags_DropsWatchRoot(flags, args) ==
  flags \cup (IF args.no_defer_flag THEN {"NoDefer"} ELSE {})

\* config.flags after the two unconditional flags were looked at
UnconditionalFlags(flags, args) ==
  flags \cup (IF args.no_defer_flag THEN {"NoDefer"} ELSE {})
        \cup (IF args.watch_root_flag THEN {"WatchRoot"} ELSE {})

\* parse_cli_settings: no_defer and watch_root
SetUnconditionalFlags ==
  /\ pc = "flags"
  /\ config' = [config EXCEPT !.flags = UnconditionalFlags(config.flags, env.args)]
  /\ Goto("ignore_self")
  /\ UNCHANGED <<env, osMajorVersion, osMinorVersion, stream, created, ops,
                 pending, produced, delivered, out,
                 stdoutBuf, flushed>>

\* the test guarding kFSEventStreamCreateFlagIgnoreSelf
IgnoreSelfAllowed(major, minor) == (major = 10) /\ (minor >= 6)

\* the test guarding kFSEventStreamCreateFlagFileEvents
FileEventsAllowed(major, minor) == (major = 10) /\ (minor >= 7)

\* GateIgnoreSelf with the stream created before the denial ends the process
GateIgnoreSelf_AfterCreate ==
  /\ pc = "ignore_self"
  /\ IF env.args.ignore_self_flag
       THEN IF IgnoreSelfAllowed(osMajorVersion, osMinorVersion)
              THEN /\ config' = [config EXCEPT !.flags = @ \cup {"IgnoreSelf"}]
                   /\ Goto("file_events")
                   /\ UNCHANGED <<stream, created, ops>>
              ELSE /\ stream' = "handle"
                   /\ created' = Append(created, [paths |-> config.paths,
                                                  sinceWhen |-> config.sinceWhen,
                                                  latency |-> config.latency,
                                                  flags |-> config.flags])
                   /\ ops' = Append(ops, "create")
                   /\ Exit(EXIT_FAILURE, "ignore_self")
                   /\ UNCHANGED config
       ELSE Goto("file_events") /\ UNCHANGED <<config, stream, created, ops>>
  /\ UNCHANGED <<env, osMajorVersion, osMinorVersion, pending, produced,
                 delivered, out, stdoutBuf, flushed>>

\* parse_cli_settings: --ignore-self
GateIgnoreSelf ==
  /\ pc = "ignore_self"
  /\ IF env.args.ignore_self_flag
       THEN IF IgnoreSelfAllowed(osMajorVersion, osMinorVersion)
              THEN /\ config' = [config EXCEPT !.flags = @ \cup {"IgnoreSelf"}]
                   /\ Goto("file_events")
              ELSE Exit(EXIT_FAILURE, "ignore_self") /\ UNCHANGED config
       ELSE Goto("file_events") /\ UNCHANGED config
  /\ UNCHANGED <<env, osMajorVersion, osMinorVersion, stream, created, ops,
                 pending, produced, delivered, out,
                 stdoutBuf, flushed>>

\* parse_cli_settings: --file-events
GateFileEvents ==
  /\ pc = "file_events"
  /\ IF env.args.file_events_flag
       THEN IF FileEventsAllowed(osMajorVersion, osMinorVersion)
              THEN /\ config' = [config EXCEPT !.flags = @ \cup {"FileEvents"}]
                   /\ Goto("paths")
              ELSE Exit(EXIT_FAILURE, "file_events") /\ UNCHANGED config
       ELSE Goto("paths") /\ UNCHANGED config
  /\ UNCHANGED <<env, osMajorVersion, osMinorVersion, stream, created, ops,
                 pending, produced, delivered, out,
                 stdoutBuf, flushed>>

\* append_inputs that leaves out a path already in the list
RECURSIVE append_inputs_Dedup(_, _, _)
append_inputs_Dedup(paths, inputs, i) ==
  IF i < Len(inputs)
    THEN append_inputs_Dedup(
           IF \E k \in 1..Len(paths) : paths[k] = ResolvePath(inputs[i + 1])
             THEN paths
             ELSE append_path(paths, inputs[i + 1]),
           inputs, i + 1)
    ELSE paths

\* the loop over args_info.inputs from index i (0-based, as in the code)
RECURSIVE append_inputs(_, _, _)
append_inputs(paths, inputs, i) ==
  IF i < Len(inputs)
    THEN append_inputs(append_path(paths, inputs[i + 1]), inputs, i + 1)
    ELSE paths

\* ResolveInputs without the default to "."
ResolveInputs_NoDefault(paths, args) == append_inputs(paths, args.inputs, 0)

\* config.paths after the path arguments were resolved
ResolveInputs(paths, args) ==
  IF args.inputs_num = 0
    THEN append_path(paths, Dot)
    ELSE append_inputs(paths, args.inputs, 0)

\* parse_cli_settings: the path arguments, or "." when there are none
AppendPaths ==
  /\ pc = "paths"
  /\ config' = [config EXCEPT !.paths = ResolveInputs(config.paths, env.args)]
  /\ Goto("create")
  /\ UNCHANGED <<env, osMajorVersion, osMinorVersion, stream, created, ops,
                 pending, produced, delivered, out,
                 stdoutBuf, flushed>>

(***************************************************************************)
(* The watch session: main from FSEventStreamCreate on.                    *)
(***************************************************************************)
\* main: FSEventStreamCreate with the configuration; the stream may refuse
\* (no handle) and main does not look at the result
StreamCreate ==
  /\ pc = "create"
  /\ \E handle \in {"handle", "NULL"} : stream' = handle
  /\ created' = Append(created, [paths |-> config.paths,
                                 sinceWhen |-> config.sinceWhen,
                                 latency |-> config.latency,
                                 flags |-> config.flags])
  /\ ops' = Append(ops, "create")
  /\ Goto("schedule")
  /\ UNCHANGED <<env, osMajorVersion, osMinorVersion, config, pending, produced,
                 delivered, out, stdoutBuf, flushed>>

\* a call of an FSEventStream function on the stream main holds: with a
\* handle it returns; on NULL the behaviour is undefined, and the process
\* either dies of a fault or carries on
StreamCall(op, next) ==
  /\ ops' = Append(ops, op)
  /\ \/ Goto(next)
     \/ stream = "NULL" /\ Exit(KilledByFault, "fault")

\* main: FSEventStreamScheduleWithRunLoop
Schedule ==
  /\ pc = "schedule"
  /\ StreamCall("schedule", "start")
  /\ UNCHANGED <<env, osMajorVersion, osMinorVersion, config, stream, created,
                 pending, produced, delivered, out,
                 stdoutBuf, flushed>>

\* main: FSEventStreamStart
Start ==
  /\ pc = "start"
  /\ StreamCall("start", "run")
  /\ UNCHANGED <<env, osMajorVersion, osMinorVersion, config, stream, created,
                 pending, produced, delivered, out,
                 stdoutBuf, flushed>>

\* the stream is started and not yet stopped
Watching == stream = "handle" /\ pc \in {"run", "flush", "stop"}

\* the stream coalesces file system changes into one more batch
Coalesce ==
  /\ Watching
  /\ produced < env.budget
  /\ \E batch \in env.activity : pending' = Append(pending, batch)
  /\ produced' = produced + 1
  /\ UNCHANGED <<env, pc, osMajorVersion, osMinorVersion, config, stream,
                 created, ops, delivered, out, stdoutBuf, flushed, exitStatus,
                 exitReason>>

\* Callback with "config.format = ..." for "config.format == ...": the test
\* assigns the classic format (0), fails, and nothing is printed
Callback_AssignsFormat ==
  /\ pc = "run"
  /\ stream = "handle"
  /\ pending # <<>>
  /\ config' = [config EXCEPT !.format = "Classic"]
  /\ LET io == fflush(Stdout(out, stdoutBuf, flushed))
     IN  /\ out' = io.out
         /\ stdoutBuf' = io.buf
         /\ flushed' = io.flushed
  /\ delivered' = Append(delivered, Head(pending))
  /\ pending' = Tail(pending)
  /\ ops' = Append(ops, "callback")
  /\ UNCHANGED <<env, pc, osMajorVersion, osMinorVersion, stream, created,
                 produced, exitStatus, exitReason>>

\* callback, run by the run loop on the oldest pending batch: format, write,
\* fflush
Callback ==
  /\ pc = "run"
  /\ stream = "handle"
  /\ pending # <<>>
  /\ LET io == run_callback(Stdout(out, stdoutBuf, flushed), config.format,
                            Head(pending))
     IN  /\ out' = io.out
         /\ stdoutBuf' = io.buf
         /\ flushed' = io.flushed
  /\ delivered' = Append(delivered, Head(pending))
  /\ pending' = Tail(pending)
  /\ ops' = Append(ops, "callback")
  /\ UNCHANGED <<env, pc, osMajorVersion, osMinorVersion, config, stream,
                 created, produced, exitStatus, exitReason>>

\* main: CFRunLoopRun returns, which it does when the loop is stopped or has
\* no source (nothing was scheduled on it)
RunLoopReturns ==
  /\ pc = "run"
  /\ Goto("flush")
  /\ UNCHANGED <<env, osMajorVersion, osMinorVersion, config, stream, created,
                 ops, pending, produced, delivered, out,
                 stdoutBuf, flushed>>

\* FlushSync and Stop called in the wrong order
FlushSync_AfterStop ==
  /\ pc = "flush"
  /\ ops' = ops \o <<"stop", "flushSync">>
  /\ Goto("return")
  /\ UNCHANGED <<env, osMajorVersion, osMinorVersion, config, stream, created,
                 pending, produced, delivered, out,
                 stdoutBuf, flushed>>

\* main: FSEventStreamFlushSync, which runs the callback on every pending
\* batch before it returns
FlushSync ==
  /\ pc = "flush"
  /\ \/ /\ stream = "handle"
        /\ LET io == flush_sync(Stdout(out, stdoutBuf, flushed), config.format,
                                 pending)
           IN  /\ out' = io.out
               /\ stdoutBuf' = io.buf
               /\ flushed' = io.flushed
        /\ delivered' = delivered \o pending
        /\ pending' = <<>>
        /\ ops' = Append(ops, "flushSync") \o [i \in 1..Len(pending) |-> "callback"]
        /\ Goto("stop")
     \/ /\ stream = "NULL"
        /\ StreamCall("flushSync", "stop")
        /\ UNCHANGED <<pending, delivered, out, stdoutBuf, flushed>>
  /\ UNCHANGED <<env, osMajorVersion, osMinorVersion, config, stream, created,
                 produced>>

\* main: FSEventStreamStop
Stop ==
  /\ pc = "stop"
  /\ StreamCall("stop", "return")
  /\ UNCHANGED <<env, osMajorVersion, osMinorVersion, config, stream, created,
                 pending, produced, delivered, out,
                 stdoutBuf, flushed>>

\* main: return 0
Return ==
  /\ pc = "return"
  /\ Exit(EXIT_SUCCESS, "return")
  /\ UNCHANGED <<env, osMajorVersion, osMinorVersion, config, stream, created,
                 ops, pending, produced, delivered, out,
                 stdoutBuf, flushed>>

\* a termination signal: main installs no handler, so the default action
\* ends the process where it stands
Signal ==
  /\ pc # "exited"
  /\ Exit(KilledBySignal, IF pc = "run" THEN "signal_running" ELSE "signal")
  /\ UNCHANGED <<env, osMajorVersion, osMinorVersion, config, stream, created,
                 ops, pending, produced, delivered, out,
                 stdoutBuf, flushed>>

Next ==
  \/ SetPgid
  \/ DetectVersion
  \/ CheckMinimumVersion
  \/ ParseCli
  \/ SetUnconditionalFlags
  \/ GateIgnoreSelf
  \/ GateFileEvents
  \/ AppendPaths
  \/ StreamCreate
  \/ Schedule
  \/ Start
  \/ Coalesce
  \/ Callback
  \/ RunLoopReturns
  \/ FlushSync
  \/ Stop
  \/ Return
  \/ Signal

Spec == Init /\ [][Next]_vars

TypeOK ==
  /\ env \in Envs
  /\ pc \in {"setpgid", "gestalt", "minimum", "cli", "flags", "ignore_self",
             "file_events", "paths", "create", "schedule", "start", "run",
             "flush", "stop", "return", "exited"}
  /\ config.flags \subseteq FlagNames
  /\ stream \in {"unset", "NULL", "handle"}
  /\ produced \in 0..env.budget
  /\ Len(created) <= 1

(***************************************************************************)
(* Properties.                                                             *)
(***************************************************************************)
\* version (major, minor) is at or above (M, m), comparing major then minor
AtLeast(major, minor, M, m) == major > M \/ (major = M /\ minor >= m)

\* the version has been detected: DetectVersion is behind
Detected == pc \notin {"setpgid", "gestalt"}

\* the flags the command line asks for
Requested(args) ==
  {f \in FlagNames :
     \/ f = "NoDefer" /\ args.no_defer_flag
     \/ f = "WatchRoot" /\ args.watch_root_flag
     \/ f = "IgnoreSelf" /\ args.ignore_self_flag
     \/ f = "FileEvents" /\ args.file_events_flag}

\* C1: when a termination signal arrives while the session is running, the
\* process has, by the time it is gone, called flushSync and then stop, and
\* no batch is left undelivered inside the stream.
C1_SignalDrainsStream ==
  (pc = "exited" /\ exitReason = "signal_running") =>
     /\ Len(ops) >= 2
     /\ SubSeq(ops, Len(ops) - 1, Len(ops)) = <<"flushSync", "stop">>
     /\ pending = <<>>

\* C2: when FSEventStreamCreate returns no handle, nothing more is called on
\* the stream (create stays the only call, once) and the process does not
\* exit with status 0.
C2_CreateFailureIsFatal ==
  stream = "NULL" =>
     /\ ops = <<"create">>
     /\ (pc = "exited" => exitStatus # 0)

\* the five stream calls in their order
SessionOrder == <<"create", "schedule", "start", "flushSync", "stop">>

IsStreamCall(op) == op # "callback"

\* C3: the calls made on the stream are always a prefix of create, schedule,
\* start, flushSync, stop (strict order, each at most once, none skipped),
\* and every callback runs after start and before stop.
C3_LinearSession ==
  LET calls == SelectSeq(ops, IsStreamCall) IN
  /\ Len(calls) <= Len(SessionOrder)
  /\ calls = SubSeq(SessionOrder, 1, Len(calls))
  /\ \A i \in 1..Len(ops) :
       ops[i] = "callback" =>
          /\ \E j \in 1..(i - 1) : ops[j] = "start"
          /\ \A j \in 1..(i - 1) : ops[j] # "stop"

\* a whole session with a batch delivered by the run loop and one by flushSync
C3_Witness ==
  ops = <<"create", "schedule", "start", "callback", "flushSync", "callback", "stop">>

\* C4: with the version detected, a requested version-gated flag is allowed
\* exactly when the version is at or above its minimum (10.6 ignore-self,
\* 10.7 file-events), later major numbers included, and a denial ends the
\* process with a non-zero status.
C4_GateByVersion ==
  (env.majorOk /\ env.minorOk) =>
     /\ "IgnoreSelf" \in config.flags => AtLeast(osMajorVersion, osMinorVersion, 10, 6)
     /\ "FileEvents" \in config.flags => AtLeast(osMajorVersion, osMinorVersion, 10, 7)
     /\ exitReason = "ignore_self" =>
           ~AtLeast(osMajorVersion, osMinorVersion, 10, 6) /\ exitStatus # 0
     /\ exitReason = "file_events" =>
           ~AtLeast(osMajorVersion, osMinorVersion, 10, 7) /\ exitStatus # 0

\* C5: the flag set passed to create is exactly the requested one, and the
\* unconditional flags are taken over whatever the OS version.
C5_NoDowngrade ==
  /\ created # <<>> => created[1].flags = Requested(env.args)
  /\ pc \in {"ignore_self", "file_events", "paths"} =>
        config.flags \cap {"NoDefer", "WatchRoot"}
          = Requested(env.args) \cap {"NoDefer", "WatchRoot"}

\* all four flags requested and passed to create
C5_Witness ==
  /\ created # <<>>
  /\ Requested(env.args) = FlagNames
  /\ created[1].flags = FlagNames

\* C6: on a detected version below 10.5 no stream is ever created and the
\* process does not exit with status 0.
C6_RefusesBelowMinimum ==
  (Detected /\ env.majorOk /\ env.minorOk
     /\ ~AtLeast(osMajorVersion, osMinorVersion, 10, 5)) =>
     /\ created = <<>>
     /\ (pc = "exited" => exitStatus # 0)

\* C7: a component whose detection failed is 0, and with a gated flag
\* requested the process then never gets past the gates: no stream is
\* created and its exit status is non-zero.
C7_UndetectedDeniesGated ==
  (Detected /\ (~env.majorOk \/ ~env.minorOk)) =>
     /\ ~env.majorOk => osMajorVersion = 0
     /\ ~env.minorOk => osMinorVersion = 0
     /\ (env.cliOk /\ (env.args.ignore_self_flag \/ env.args.file_events_flag)) =>
           /\ created = <<>>
           /\ pc \in {"minimum", "cli", "flags", "ignore_self", "file_events", "exited"}
           /\ (pc = "exited" => exitStatus # 0)

\* --file-events denied because the major version could not be detected
C7_Witness ==
  /\ ~env.majorOk
  /\ env.minorOk
  /\ env.minor = 7
  /\ env.args.file_events_flag
  /\ pc = "exited"
  /\ exitReason = "file_events"
  /\ exitStatus = EXIT_FAILURE

\* the exits of a failed startup
StartupFailures == {"setpgid", "minimum", "cli", "ignore_self", "file_events"}

\* C8: a process that exited on a configuration or capability error has
\* called nothing on the stream: not create, so not schedule or start.
C8_NoPartialStart ==
  (pc = "exited" /\ exitReason \in StartupFailures) =>
     /\ created = <<>>
     /\ ops = <<>>
     /\ stream = "unset"
     /\ exitStatus # 0

\* a denied --ignore-self
C8_Witness ==
  /\ pc = "exited"
  /\ exitReason = "ignore_self"
  /\ ops = <<>>

\* C9: the path list passed to create is never empty: the resolved current
\* directory alone when no path was given, else one entry per path given.
C9_PathsNeverEmpty ==
  created # <<>> =>
     LET paths == created[1].paths IN
     /\ Len(paths) >= 1
     /\ env.args.inputs_num = 0 => paths = <<Cwd>>
     /\ env.args.inputs_num > 0 => Len(paths) = env.args.inputs_num

\* a stream created for a command line without paths
C9_Witness ==
  /\ created # <<>>
  /\ env.args.inputs_num = 0
  /\ created[1].paths = <<Cwd>>

\* length of the classic text of the first n events of a batch
RECURSIVE ClassicOffset(_, _)
ClassicOffset(batch, n) ==
  IF n = 0 THEN 0 ELSE ClassicOffset(batch, n - 1) + Len(batch[n].path) + 1

\* text is the n paths in order, a colon after each, then one newline
IsClassicText(text, batch) ==
  /\ Len(text) = ClassicOffset(batch, Len(batch)) + 1
  /\ text[Len(text)] = "\n"
  /\ \A i \in 1..Len(batch) :
       LET from == ClassicOffset(batch, i - 1)
           path == batch[i].path
       IN  /\ SubSeq(text, from + 1, from + Len(path)) = path
           /\ text[from + Len(path) + 1] = ":"

\* length of the classic text of the first n batches
RECURSIVE ClassicStart(_, _)
ClassicStart(batches, n) ==
  IF n = 0 THEN 0
  ELSE ClassicStart(batches, n - 1)
         + ClassicOffset(batches[n], Len(batches[n])) + 1

\* "/tmp/a:/tmp/b:\n"
ClassicExample ==
  <<"/", "t", "m", "p", "/", "a", ":", "/", "t", "m", "p", "/", "b", ":", "\n">>

\* C10: in classic format standard output is, batch after batch, the paths
\* of the batch in order, each followed by a colon, then a newline, and
\* nothing else; the batch [(/tmp/a,0,1),(/tmp/b,0,2)] gives "/tmp/a:/tmp/b:\n".
C10_ClassicFormat ==
  config.format = "Classic" =>
     /\ Len(out) = ClassicStart(delivered, Len(delivered))
     /\ \A k \in 1..Len(delivered) :
          IsClassicText(SubSeq(out, ClassicStart(delivered, k - 1) + 1,
                               ClassicStart(delivered, k)),
                        delivered[k])
     /\ delivered = <<<<EventA, EventB>>>> => out = ClassicExample

\* the example batch, delivered in classic format
C10_Witness ==
  /\ config.format = "Classic"
  /\ Len(delivered) = 1
  /\ delivered[1] = <<EventA, EventB>>
  /\ out = ClassicExample

\* the value of a decimal digit character
DigitValue(c) == CHOOSE d \in 0..9 : Digit(d) = <<c>>

\* the number a string of decimal digits denotes
RECURSIVE DecimalValue(_)
DecimalValue(text) ==
  IF Len(text) = 0 THEN 0
  ELSE 10 * DecimalValue(SubSeq(text, 1, Len(text) - 1)) + DigitValue(text[Len(text)])

\* text is n written as an unsigned decimal: digits only, no sign, no
\* leading zero
IsDecimalOf(text, n) ==
  /\ Len(text) >= 1
  /\ \A i \in 1..Len(text) : \E d \in 0..9 : Digit(d) = <<text[i]>>
  /\ Len(text) > 1 => text[1] # "0"
  /\ DecimalValue(text) = n

\* the number of decimal digits of n
DecimalLen(n) == CHOOSE k \in 1..9 : n < 10^k /\ (k = 1 \/ n >= 10^(k - 1))

\* length of the annotated line of an event
AnnotatedLineLen(event) ==
  DecimalLen(event.flags) + 1 + DecimalLen(event.id) + 1 + Len(event.path) + 1

\* text is "<flags>:<id>:<path>\n" for the event
IsAnnotatedLine(text, event) ==
  LET f == DecimalLen(event.flags)
      i == DecimalLen(event.id)
  IN  /\ Len(text) = AnnotatedLineLen(event)
      /\ IsDecimalOf(SubSeq(text, 1, f), event.flags)
      /\ text[f + 1] = ":"
      /\ IsDecimalOf(SubSeq(text, f + 2, f + 1 + i), event.id)
      /\ text[f + i + 2] = ":"
      /\ SubSeq(text, f + i + 3, Len(text) - 1) = event.path
      /\ text[Len(text)] = "\n"

\* length of the annotated lines of the first n events of a batch
RECURSIVE AnnotatedOffset(_, _)
AnnotatedOffset(batch, n) ==
  IF n = 0 THEN 0 ELSE AnnotatedOffset(batch, n - 1) + AnnotatedLineLen(batch[n])

\* text is one annotated line per event, in order, then an empty line
IsAnnotatedText(text, batch) ==
  /\ Len(text) = AnnotatedOffset(batch, Len(batch)) + 1
  /\ text[Len(text)] = "\n"
  /\ \A i \in 1..Len(batch) :
       IsAnnotatedLine(SubSeq(text, AnnotatedOffset(batch, i - 1) + 1,
                              AnnotatedOffset(batch, i)),
                       batch[i])

\* length of the annotated text of the first n batches
RECURSIVE AnnotatedStart(_, _)
AnnotatedStart(batches, n) ==
  IF n = 0 THEN 0
  ELSE AnnotatedStart(batches, n - 1)
         + AnnotatedOffset(batches[n], Len(batches[n])) + 1

\* "0:1:/tmp/a\n0:2:/tmp/b\n\n"
AnnotatedExample ==
  <<"0", ":", "1", ":", "/", "t", "m", "p", "/", "a", "\n",
    "0", ":", "2", ":", "/", "t", "m", "p", "/", "b", "\n", "\n">>

\* C11: in annotated format standard output is, batch after batch, one line
\* "<flags>:<id>:<path>" per event in order, flags and id as unsigned
\* decimals, then an empty line; the batch [(/tmp/a,0,1),(/tmp/b,0,2)] gives
\* "0:1:/tmp/a\n0:2:/tmp/b\n\n".
C11_AnnotatedFormat ==
  config.format = "NIW" =>
     /\ Len(out) = AnnotatedStart(delivered, Len(delivered))
     /\ \A k \in 1..Len(delivered) :
          IsAnnotatedText(SubSeq(out, AnnotatedStart(delivered, k - 1) + 1,
                                 AnnotatedStart(delivered, k)),
                          delivered[k])
     /\ delivered = <<<<EventA, EventB>>>> => out = AnnotatedExample

\* the example batch, delivered in annotated format
C11_Witness ==
  /\ config.format = "NIW"
  /\ Len(delivered) = 1
  /\ delivered[1] = <<EventA, EventB>>
  /\ out = AnnotatedExample

\* the text of the first n of the batches, one after the other
RECURSIVE RenderedUpTo(_, _, _)
RenderedUpTo(format, batches, n) ==
  IF n = 0 THEN <<>>
  ELSE RenderedUpTo(format, batches, n - 1) \o callback(format, batches[n])

\* C12: every callback invocation ends with one fflush after the whole batch
\* was printed: nothing stays in the stdio buffer, there is one flush per
\* delivered batch, and at the k-th flush the output is exactly the complete
\* text of the first k batches.
C12_FlushAfterEveryBatch ==
  /\ stdoutBuf = <<>>
  /\ Len(flushed) = Len(delivered)
  /\ \A k \in 1..Len(flushed) :
       /\ flushed[k] <= Len(out)
       /\ SubSeq(out, 1, flushed[k]) = RenderedUpTo(config.format, delivered, k)

\* two batches delivered, each flushed on its own
C12_Witness ==
  /\ Len(delivered) = 2
  /\ Len(flushed) = 2
  /\ 0 < flushed[1]
  /\ flushed[1] < flushed[2]
  /\ flushed[2] = Len(out)

\* a path argument whose first character is not '/'
IsRelative(path) == Len(path) = 0 \/ path[1] # "/"

\* the path the resolver is to produce, whatever its length
WouldResolve(path) ==
  LET r == realpath(path) IN
  IF r.ok THEN r.path
  ELSE IF IsRelative(path) THEN Cwd \o <<"/">> \o path
  ELSE path

\* the path arguments were resolved into config.paths
PathsResolved ==
  /\ env.args.inputs_num > 0
  /\ Len(config.paths) = env.args.inputs_num

\* C13: with a path argument whose resolution is longer than PATH_MAX, no
\* stream is created, the exit status is not 0, and config.paths never holds
\* anything but whole resolved paths (no truncated entry).
C13_OverflowAborts ==
  (\E i \in 1..env.args.inputs_num :
      Len(WouldResolve(env.args.inputs[i])) > PATH_MAX) =>
     /\ created = <<>>
     /\ (pc = "exited" => exitStatus # 0)
     /\ \A k \in 1..Len(config.paths) :
          \E j \in 1..env.args.inputs_num :
             config.paths[k] = WouldResolve(env.args.inputs[j])

\* C14: an absolute path argument at which nothing exists is appended to
\* config.paths exactly as given.
C14_AbsoluteMissingUnchanged ==
  PathsResolved =>
     \A i \in 1..env.args.inputs_num :
        LET path == env.args.inputs[i] IN
        (~IsRelative(path) /\ realpath(path).errno = "ENOENT") =>
           config.paths[i] = path

\* the longest absolute name that fits, nothing there, passed to create as is
C14_Witness ==
  /\ created # <<>>
  /\ env.args.inputs = <<AbsLongest>>
  /\ realpath(AbsLongest).errno = "ENOENT"
  /\ created[1].paths = <<AbsLongest>>

\* C15: a relative path argument resolves to an absolute path: its canonical
\* form when it exists, else the working directory, a '/' and the argument.
C15_RelativeResolves ==
  PathsResolved =>
     \A i \in 1..env.args.inputs_num :
        LET path == env.args.inputs[i] IN
        IsRelative(path) =>
           /\ config.paths[i][1] = "/"
           /\ realpath(path).ok => config.paths[i] = realpath(path).path
           /\ ~realpath(path).ok => config.paths[i] = Cwd \o <<"/">> \o path

\* C16: the process exits with status 0 only after flushSync and then stop
\* on a stream that was created, and every configuration, capability or
\* stream creation failure ends it with a non-zero status.
C16_ExitZeroOnlyGraceful ==
  /\ (pc = "exited" /\ exitStatus = 0) =>
        /\ stream = "handle"
        /\ SelectSeq(ops, IsStreamCall) = SessionOrder
  /\ (pc = "exited" /\ exitReason \in StartupFailures) => exitStatus # 0
  /\ (pc = "exited" /\ stream = "NULL") => exitStatus # 0

\* the text the k-th callback invocation wrote
Written(k) == SubSeq(out, (IF k = 1 THEN 0 ELSE flushed[k - 1]) + 1, flushed[k])

\* C17: whenever the same batch was delivered twice, the two invocations
\* wrote the same text, whatever was delivered before or in between.
C17_SameBatchSameText ==
  Len(flushed) = Len(delivered) =>
     \A i, j \in 1..Len(delivered) :
        delivered[i] = delivered[j] => Written(i) = Written(j)

\* the same batch before and after another one
C17_Witness ==
  /\ Len(delivered) = 3
  /\ Len(flushed) = 3
  /\ delivered[1] = <<EventA, EventB>>
  /\ delivered[2] = <<EventC>>
  /\ delivered[3] = <<EventA, EventB>>
  /\ Written(1) = Written(3)
  /\ Written(1) # <<>>

\* C18: standard output is the texts of the delivered batches, whole and in
\* delivery order: each invocation wrote the complete text of its batch
\* right after the text of the batch before.
C18_SerialBatches ==
  /\ out = RenderedUpTo(config.format, delivered, Len(delivered))
  /\ Len(flushed) = Len(delivered) =>
        \A k \in 1..Len(delivered) :
           Written(k) = callback(config.format, delivered[k])

\* two batches drained by one flushSync, one after the other
C18_Witness ==
  /\ ops = <<"create", "schedule", "start", "flushSync", "callback", "callback">>
  /\ delivered = <<<<EventA, EventB>>, <<EventC>>>>
  /\ out = callback(config.format, <<EventA, EventB>>)
             \o callback(config.format, <<EventC>>)

\* C19: once the stream is created no step changes config, which holds the
\* format of the command line; a callback invocation changes neither config
\* nor the stream nor the exit status.
C19_ConfigImmutable ==
  [][/\ created # <<>> =>
          /\ config' = config
          /\ config.format = env.args.format_arg
     /\ delivered' # delivered =>
          /\ config' = config
          /\ stream' = stream
          /\ created' = created
          /\ osMajorVersion' = osMajorVersion
          /\ osMinorVersion' = osMinorVersion
          /\ exitStatus' = exitStatus]_vars

\* a run with a non-default starting point, latency and format, two batches
\* delivered
C19_Witness ==
  /\ created # <<>>
  /\ config.sinceWhen = 5
  /\ config.latency = 0
  /\ config.format = "NIW"
  /\ Len(delivered) = 2

\* C20: the path list passed to create has one entry per path argument, in
\* the order given, each the resolution of its argument; a path given twice
\* is there twice.
C20_InputsPreserved ==
  (created # <<>> /\ env.args.inputs_num > 0) =>
     LET paths == created[1].paths IN
     /\ Len(paths) = env.args.inputs_num
     /\ \A i \in 1..env.args.inputs_num : paths[i] = ResolvePath(env.args.inputs[i])

\* the same path twice
C20_Witness ==
  /\ created # <<>>
  /\ env.args.inputs = <<RelMissing, RelMissing>>
  /\ created[1].paths = <<Cwd \o <<"/">> \o RelMissing, Cwd \o <<"/">> \o RelMissing>>

=============================================================================
